---- MODULE Spec2Model ----
(***************************************************************************)
(* Model of transcription/main.py: the captions-first transcription        *)
(* request (main -> transcribe), its caption stage, the yt-dlp | ffmpeg    *)
(* audio pipeline over bounded OS pipes, the Whisper model load, the       *)
(* bridge file and inference, and the delivery of SIGINT / SIGTERM.        *)
(* Spec follows one request from start to end; SpecPair follows two        *)
(* concurrent invocations through their caption stages in one /tmp.        *)
(*                                                                         *)
(* Python strings are sequences of tokens (a character for a video id, a   *)
(* word / tag / separator for caption text).  Optional[str] is a sequence  *)
(* of length at most one: <<>> is None and <<s>> is the string s.          *)
(***************************************************************************)
EXTENDS Integers, Sequences, FiniteSets, TLC

(***************************************************************************)
(* Bounds                                                                  *)
(***************************************************************************)
\* bytes an OS pipe buffers before a writer blocks (65536 on Linux)
PipeCap == 1

(***************************************************************************)
(* String helpers, computed as the Python built-ins compute them           *)
(***************************************************************************)
None == <<>>
Some(s) == <<s>>

Whitespace == {" ", "\n"}
Letters == {"d", "Q", "w", "g", "X", "c", "W"}
Digits == {"4", "9"}

RECURSIVE LStrip(_)
LStrip(s) ==
    IF s # <<>> /\ Head(s) \in Whitespace THEN LStrip(Tail(s)) ELSE s

RECURSIVE RStrip(_)
RStrip(s) ==
    IF s # <<>> /\ s[Len(s)] \in Whitespace
    THEN RStrip(SubSeq(s, 1, Len(s) - 1)) ELSE s

\* str.strip()
Strip(s) == RStrip(LStrip(s))

\* str.replace(c, '') for a one-token c
Remove(s, c) == SelectSeq(s, LAMBDA t : t # c)

\* str.isalnum(): non-empty and every character a letter or a digit
IsAlnum(s) == s # <<>> /\ \A i \in 1..Len(s) : s[i] \in Letters \cup Digits

\* truthiness of an os.getenv value
Unset == "<unset>"
Truthy(v) == v # Unset /\ v # ""

(***************************************************************************)
(* Inputs                                                                  *)
(***************************************************************************)
BaseId == <<"d", "Q", "-", "4", "w", "9", "_", "g", "X", "c", "Q">>

\* command-line arguments / references a caller may pass
Ids ==
    { BaseId,
      [BaseId EXCEPT ![6] = "$"],
      SubSeq(BaseId, 1, 10),
      BaseId \o <<"Q">>,
      <<" ">> \o BaseId \o <<" ">>,
      <<>> }

ProxyVars == <<"PROXY_USER", "PROXY_PASS", "PROXY_HOST", "PROXY_PORT">>
ProxyVarSet == {ProxyVars[i] : i \in 1..Len(ProxyVars)}
EnvValues == {Unset, "", "v"}
\* values of WHISPER_MODEL_SIZE
ModelSizes == {Unset, "large", "large-v3", "small"}
Signals == {"SIGINT", "SIGTERM"}

\* the names the caption stage probes, in order (lines 110-115)
CaptionSuffixes == <<".en.vtt", ".es.vtt", ".en-US.vtt", ".vtt">>
CaptionFiles(id) == [i \in 1..Len(CaptionSuffixes) |-> <<id, CaptionSuffixes[i]>>]

VARIABLES
    entry,        \* "main" (CLI) or "transcribe" (direct call)
    environ,      \* os.environ restricted to the four proxy variables
    installed,    \* what is installed: "yt-dlp", "ffmpeg", "whisper"
    pc,           \* position of the control thread
    video_id,
    missing,      \* the names listed by get_proxy_config's ValueError
    model_size,
    files,        \* caption files present under /tmp
    capChild,     \* caption downloader: "none", "run", "exited", "reaped"
    cap_file,     \* the file the probe loop stopped at (Optional path)
    caption_text, \* Optional[str]
    final_text,
    handlers,     \* signals whose handler is signal_handler
    yt,           \* audio downloader: "none", what it does next, "x0", "x1"
    ff,           \* resampler: "none", what it does next, "x0", "x1"
    ytHandle,     \* the parent's handle to yt_dlp_process.stdout
    ytOut,        \* bytes buffered in each pipe
    ytErr,
    ffOut,
    ffErr,
    audio_data,   \* the bytes read so far: "" or "data"
    loads,        \* names passed to whisper.load_model, in order
    bridge,       \* the temporary .wav: "none", "exists", "deleted"
    result_text,
    events,       \* the spawns and calls of the request, in order
    signalled,    \* SIGINT or SIGTERM was delivered during the request
    outcome,      \* "running", "returned", "raised", "exited", "killed"
    exc,          \* the exception that left transcribe, "" if none
    result,       \* the value transcribe returned (Optional[str])
    exitStatus,   \* process exit status, -1 while the process lives
    peer          \* a concurrent invocation: its caption stage

inputVars == <<entry, environ, installed>>
frontVars == <<video_id, missing, model_size>>
capVars == <<files, capChild, caption_text, final_text>>
childVars == <<yt, ff, ytOut, ytErr, ffOut, ffErr>>
pipeVars == <<yt, ff, ytHandle, ytOut, ytErr, ffOut, ffErr, audio_data>>
whisperVars == <<loads, bridge, result_text>>
endVars == <<outcome, exc, result, exitStatus>>
vars == <<entry, environ, installed, pc, video_id, missing, model_size,
          files, capChild, caption_text, final_text, handlers,
          yt, ff, ytHandle, ytOut, ytErr, ffOut, ffErr, audio_data,
          loads, bridge, result_text, events, signalled,
          outcome, exc, result, exitStatus, cap_file, peer>>

\* no other invocation runs
NoPeer == [pc |-> "absent", video_id |-> <<>>, cap_file |-> None,
           wrote |-> {}]

Init ==
    /\ entry \in {"main", "transcribe"}
    /\ environ \in [ProxyVarSet -> EnvValues]
    /\ installed \in SUBSET {"yt-dlp", "ffmpeg", "whisper"}
    /\ pc = "import"
    /\ video_id = <<>>
    /\ missing = <<>>
    /\ model_size = ""
    /\ files = {}
    /\ capChild = "none"
    /\ caption_text = None
    /\ final_text = <<>>
    /\ handlers = {}
    /\ yt = "none" /\ ff = "none" /\ ytHandle = "none"
    /\ ytOut = 0 /\ ytErr = 0 /\ ffOut = 0 /\ ffErr = 0
    /\ audio_data = ""
    /\ loads = <<>>
    /\ bridge = "none"
    /\ result_text = <<>>
    /\ events = <<>>
    /\ signalled = FALSE
    /\ outcome = "running"
    /\ exc = ""
    /\ result = None
    /\ exitStatus = -1
    /\ cap_file = None
    /\ peer = NoPeer

(***************************************************************************)
(* How a request ends                                                      *)
(***************************************************************************)
\* sys.exit(status) reaching the interpreter
Exit(status) ==
    /\ pc' = "done"
    /\ outcome' = "exited"
    /\ exitStatus' = status
    /\ UNCHANGED <<exc, result>>

\* transcribe executes "return v"
Return(v) ==
    /\ result' = v
    /\ IF entry = "main"
       THEN pc' = "main_result" /\ outcome' = outcome
       ELSE pc' = "done" /\ outcome' = "returned"
    /\ UNCHANGED <<exc, exitStatus>>

\* an exception e leaves transcribe.  Under main, line 351 catches an
\* Exception and exits 1 (lines 351-353); SystemExit(0) and
\* KeyboardInterrupt are not Exceptions: the first ends the interpreter with
\* status 0, the second ends it by SIGINT.
Raise(e) ==
    /\ exc' = e
    /\ result' = result
    /\ pc' = "done"
    /\ IF entry = "main"
       THEN /\ outcome' = IF e = "KeyboardInterrupt" THEN "killed"
                          ELSE "exited"
            /\ exitStatus' = CASE e = "ValueError" -> 1
                               [] e = "SystemExit" -> 0
                               [] OTHER -> 130
       ELSE outcome' = "raised" /\ exitStatus' = exitStatus

(***************************************************************************)
(* Module import and main (lines 15-19, 323-353)                           *)
(***************************************************************************)
\* lines 15-19
ImportWhisper ==
    /\ pc = "import"
    /\ IF "whisper" \in installed
       THEN /\ pc' = IF entry = "main" THEN "main_args" ELSE "call"
            /\ UNCHANGED endVars
       ELSE Exit(1)
    /\ UNCHANGED video_id
    /\ UNCHANGED <<inputVars, cap_file, peer,
                   missing, model_size, capVars, handlers,
                   pipeVars, whisperVars, events, signalled>>

\* the test of line 333
ValidVideoId(id) == ~(~IsAlnum(Remove(Remove(id, "-"), "_")) \/ Len(id) # 11)

\* a caller other than main calls transcribe(id) (line 48)
Call(id) ==
    /\ pc = "call"
    /\ video_id' = id
    /\ pc' = "t_validate"
    /\ UNCHANGED <<inputVars, cap_file, peer,
                   missing, model_size, capVars, handlers,
                   pipeVars, whisperVars, events, signalled, endVars>>

\* the argument lists main may be started with: sys.argv[1:]
ArgLists == {<<>>, <<BaseId, BaseId>>} \cup {<<a>> : a \in Ids}

\* lines 325-336, 342
MainArgs(args) ==
    /\ pc = "main_args"
    /\ IF Len(args) + 1 # 2
       THEN Exit(1) /\ UNCHANGED video_id
       ELSE /\ video_id' = Strip(args[1])
            /\ IF ValidVideoId(video_id')
               THEN pc' = "t_validate" /\ UNCHANGED endVars
               ELSE Exit(1)
    /\ UNCHANGED <<inputVars, cap_file, peer,
                   missing, model_size, capVars, handlers,
                   pipeVars, whisperVars, events, signalled>>

\* line 344 with the test dropped: every return counts as a success
ResultOkAlways(r) == TRUE

\* line 344: if result
ResultOk(r) == r # None /\ r[1] # <<>>

\* lines 344-349
MainResult ==
    /\ pc = "main_result"
    /\ IF ResultOk(result) THEN Exit(0) ELSE Exit(1)
    /\ UNCHANGED <<inputVars, cap_file, peer,
                   frontVars, capVars, handlers, pipeVars,
                   whisperVars, events, signalled>>

(***************************************************************************)
(* transcribe: validation and proxy configuration (lines 59-103)           *)
(***************************************************************************)
\* line 59
ValidLength(id) == ~(id = <<>> \/ Len(id) # 11)

\* lines 59-60
Validate ==
    /\ pc = "t_validate"
    /\ IF ValidLength(video_id)
       THEN pc' = "t_proxy" /\ UNCHANGED endVars
       ELSE Raise("ValueError")
    /\ UNCHANGED <<inputVars, cap_file, peer,
                   frontVars, capVars, handlers, pipeVars,
                   whisperVars, events, signalled>>

\* lines 30-35 stopping at the first name that is unset or empty
MissingFirstOnly(env) ==
    LET all == SelectSeq(ProxyVars, LAMBDA v : ~Truthy(env[v]))
    IN IF all = <<>> THEN <<>> ELSE <<all[1]>>

\* lines 30-35: the names whose value is unset or empty, in order
Missing(env) == SelectSeq(ProxyVars, LAMBDA v : ~Truthy(env[v]))

\* line 29
ProxyComplete(env) == \A i \in 1..Len(ProxyVars) : Truthy(env[ProxyVars[i]])

\* lines 65-103 with get_proxy_config (lines 22-45)
GetProxyConfig ==
    /\ pc = "t_proxy"
    /\ IF ProxyComplete(environ)
       THEN pc' = "cap_run" /\ UNCHANGED <<missing, endVars>>
       ELSE missing' = Missing(environ) /\ Return(None)
    /\ UNCHANGED <<inputVars, cap_file, peer,
                   video_id, model_size, capVars, handlers,
                   pipeVars, whisperVars, events, signalled>>

(***************************************************************************)
(* Caption documents and their parsing (lines 126-140)                     *)
(***************************************************************************)
Timing == <<"00:01", " ", "-->", " ", "00:02">>

\* contents a caption file may have; "\n" separates lines
Docs ==
    { <<>>,
      <<"WEBVTT", "\n", "\n", "4", "\n">> \o Timing
          \o <<"\n", "<c>", "</c>", "\n", " ", "\n">>,
      <<"WEBVTT", "\n", "\n">> \o Timing
          \o <<"\n", "<c>", "Hello", "</c>", " ", "world", "\n">>,
      <<"WEBVTT", "\n", "\n", "4", "\n">> \o Timing
          \o <<"\n", " ", "Hello", "\n", "\n", "9", "\n">> \o Timing
          \o <<"\n", "world", " ", "\n">>,
      <<"WEBVTT", "\n", "Kind:", " ", "captions", "\n",
        "Language:", " ", "en", "\n", "\n">> \o Timing
          \o <<"\n", "Hello", "<00:01>", "<c>", " ", "world", "</c>", "\n">> }

\* str.split('\n')
RECURSIVE SplitLines(_, _)
SplitLines(s, cur) ==
    IF s = <<>> THEN <<cur>>
    ELSE IF Head(s) = "\n" THEN <<cur>> \o SplitLines(Tail(s), <<>>)
    ELSE SplitLines(Tail(s), Append(cur, Head(s)))

\* str.isdigit()
IsDigit(s) == s # <<>> /\ \A i \in 1..Len(s) : s[i] \in Digits

\* line 133
KeepLine(line) ==
    /\ line # <<>>
    /\ line[1] # "WEBVTT"
    /\ \A i \in 1..Len(line) : line[i] # "-->"
    /\ ~IsDigit(line)

\* lines 135-136
CleanLine(line) == Strip(Remove(Remove(line, "<c>"), "</c>"))

\* lines 131-138
RECURSIVE TextLines(_)
TextLines(lines) ==
    IF lines = <<>> THEN <<>>
    ELSE LET line == Strip(Head(lines))
             rest == TextLines(Tail(lines))
         IN IF KeepLine(line) /\ CleanLine(line) # <<>>
            THEN <<CleanLine(line)>> \o rest
            ELSE rest

\* ' '.join(text_lines)
RECURSIVE Join(_)
Join(lines) ==
    IF lines = <<>> THEN <<>>
    ELSE IF Len(lines) = 1 THEN lines[1]
    ELSE lines[1] \o <<" ">> \o Join(Tail(lines))

\* lines 129-140
ParseVTT(text) == Join(TextLines(SplitLines(text, <<>>)))

(***************************************************************************)
(* transcribe: the caption stage (lines 105-151)                           *)
(***************************************************************************)
\* events records, for each child, that it was started or that starting
\* it failed, and that the inference call was made
Started(child) == <<child, "started">>
Failed(child) == <<child, "failed">>
Count(e) == Cardinality({i \in 1..Len(events) : events[i] = e})

\* transcribe is executing (lines 59-320); the children are followed for as
\* long as it does
InTranscribe ==
    pc \notin {"import", "call", "main_args", "main_result", "done"}

\* line 107: subprocess.run starts the caption downloader, or raises
\* FileNotFoundError, which line 150 catches
CaptionRun ==
    /\ pc = "cap_run"
    /\ IF "yt-dlp" \in installed
       THEN /\ capChild' = "run"
            /\ events' = Append(events, Started("captions"))
            /\ pc' = "cap_wait"
       ELSE /\ events' = Append(events, Failed("captions"))
            /\ pc' = "sig_int"
            /\ UNCHANGED capChild
    /\ UNCHANGED <<inputVars, cap_file, peer,
                   frontVars, files, caption_text,
                   final_text, handlers, pipeVars, whisperVars, signalled,
                   endVars>>

\* the caption downloader writes one of the files it may produce
CaptionChildWrite(i) ==
    /\ capChild = "run"
    /\ InTranscribe
    /\ CaptionFiles(video_id)[i] \notin files
    /\ files' = files \cup {CaptionFiles(video_id)[i]}
    /\ UNCHANGED <<inputVars, cap_file, peer,
                   pc, frontVars, capChild, caption_text,
                   final_text, handlers, pipeVars, whisperVars, events,
                   signalled, endVars>>

\* the caption downloader exits; its status is not looked at (line 107)
CaptionChildExit ==
    /\ capChild = "run"
    /\ InTranscribe
    /\ capChild' = "exited"
    /\ UNCHANGED <<inputVars, cap_file, peer,
                   pc, frontVars, files, caption_text,
                   final_text, handlers, pipeVars, whisperVars, events,
                   signalled, endVars>>

\* line 107 with the TimeoutExpired not caught by line 150: it would reach
\* the caller as a failure of the request
CaptionTimeoutFatal ==
    /\ pc = "cap_wait"
    /\ capChild = "run"
    /\ capChild' = "reaped"
    /\ Return(None)
    /\ UNCHANGED <<inputVars, cap_file, peer,
                   frontVars, files, caption_text,
                   final_text, handlers, pipeVars, whisperVars, events,
                   signalled>>

\* line 107, timeout=60: run() kills the child and raises TimeoutExpired,
\* which line 150 catches
CaptionTimeout ==
    /\ pc = "cap_wait"
    /\ capChild = "run"
    /\ capChild' = "reaped"
    /\ pc' = "sig_int"
    /\ UNCHANGED <<inputVars, cap_file, peer,
                   frontVars, files, caption_text,
                   final_text, handlers, pipeVars, whisperVars, events,
                   signalled, endVars>>

\* lines 118-119: the first probed name that exists
RECURSIVE FirstExisting(_, _)
FirstExisting(names, fs) ==
    IF names = <<>> THEN None
    ELSE IF Head(names) \in fs THEN Some(Head(names))
    ELSE FirstExisting(Tail(names), fs)

\* the cap_file the loop of line 118 stops at, None if it runs to its end
CapFile == FirstExisting(CaptionFiles(video_id), files)

\* lines 107-119: run() returns, the probe loop looks for a file
CaptionProbe ==
    /\ pc = "cap_wait"
    /\ capChild = "exited"
    /\ capChild' = "reaped"
    /\ cap_file' = CapFile
    /\ pc' = IF CapFile = None THEN "cap_parse" ELSE "cap_read"
    /\ UNCHANGED <<inputVars, peer, frontVars, files, caption_text,
                   final_text, handlers, pipeVars, whisperVars, events,
                   signalled, endVars>>

\* lines 121-122: the file is read; a failure of open() or read()
\* (OSError, UnicodeDecodeError) is caught by line 150.  cap_file is not
\* used after the loop and is forgotten when the loop is left.
CaptionRead ==
    /\ pc = "cap_read"
    /\ \/ /\ cap_file[1] \in files
          /\ \E d \in Docs : caption_text' = Some(d)
          /\ pc' = "cap_unlink"
          /\ UNCHANGED cap_file
       \/ caption_text' = caption_text /\ pc' = "sig_int" /\ cap_file' = None
    /\ UNCHANGED <<inputVars, peer, frontVars, files, capChild, final_text,
                   handlers, pipeVars, whisperVars, events, signalled,
                   endVars>>

\* line 123; FileNotFoundError, when the file is gone, is caught by line
\* 150.  peer.wrote keeps, of the files present, those the other
\* invocation's downloader wrote.
CaptionUnlink ==
    /\ pc = "cap_unlink"
    /\ files' = files \ {cap_file[1]}
    /\ peer' = [peer EXCEPT !.wrote = @ \ {cap_file[1]}]
    /\ cap_file' = None
    /\ pc' = IF cap_file[1] \in files THEN "cap_parse" ELSE "sig_int"
    /\ UNCHANGED <<inputVars, frontVars, capChild, caption_text,
                   final_text, handlers, pipeVars, whisperVars, events,
                   signalled, endVars>>

\* line 141 with the return dropped: the stage always falls through
HasTextNever(text) == FALSE

\* line 141: if final_text
HasText(text) == text # <<>>

\* lines 126-148
CaptionParse ==
    /\ pc = "cap_parse"
    /\ IF caption_text # None /\ caption_text[1] # <<>>
       THEN /\ final_text' = ParseVTT(caption_text[1])
            /\ IF HasText(final_text')
               THEN Return(Some(final_text'))
               ELSE pc' = "sig_int" /\ UNCHANGED endVars
       ELSE pc' = "sig_int" /\ UNCHANGED <<final_text, endVars>>
    /\ UNCHANGED <<inputVars, cap_file, peer,
                   frontVars, files, capChild, caption_text,
                   handlers, pipeVars, whisperVars, events, signalled>>

(***************************************************************************)
(* A second invocation of transcribe running at the same time: its caption *)
(* stage (lines 101-124), which works in the same /tmp                     *)
(***************************************************************************)
\* the other invocation's caption downloader writes one of its files
\* (line 101: the path is made of the video id alone)
PeerChildWrite(i) ==
    /\ peer.pc = "cap_wait"
    /\ CaptionFiles(peer.video_id)[i] \notin files
    /\ files' = files \cup {CaptionFiles(peer.video_id)[i]}
    /\ peer' = [peer EXCEPT !.wrote = @ \cup {CaptionFiles(peer.video_id)[i]}]
    /\ UNCHANGED <<inputVars, cap_file, pc, frontVars, capChild,
                   caption_text, final_text, handlers, pipeVars, whisperVars,
                   events, signalled, endVars>>

\* line 107 in the other invocation: its downloader exits, run() returns
PeerChildExit ==
    /\ peer.pc = "cap_wait"
    /\ peer' = [peer EXCEPT !.pc = "cap_probe"]
    /\ UNCHANGED <<inputVars, cap_file, pc, frontVars, capVars, handlers,
                   pipeVars, whisperVars, events, signalled, endVars>>

\* lines 118-119 in the other invocation
PeerProbe ==
    /\ peer.pc = "cap_probe"
    /\ LET found == FirstExisting(CaptionFiles(peer.video_id), files)
       IN peer' = [peer EXCEPT !.cap_file = found,
                               !.pc = IF found = None THEN "left"
                                      ELSE "cap_read"]
    /\ UNCHANGED <<inputVars, cap_file, pc, frontVars, capVars, handlers,
                   pipeVars, whisperVars, events, signalled, endVars>>

\* lines 121-122 in the other invocation
PeerRead ==
    /\ peer.pc = "cap_read"
    /\ peer' = [peer EXCEPT !.pc = IF peer.cap_file[1] \in files
                                   THEN "cap_unlink" ELSE "left"]
    /\ UNCHANGED <<inputVars, cap_file, pc, frontVars, capVars, handlers,
                   pipeVars, whisperVars, events, signalled, endVars>>

\* line 123 in the other invocation
PeerUnlink ==
    /\ peer.pc = "cap_unlink"
    /\ files' = files \ {peer.cap_file[1]}
    /\ peer' = [peer EXCEPT !.pc = "left", !.cap_file = None,
                            !.wrote = @ \ {peer.cap_file[1]}]
    /\ UNCHANGED <<inputVars, cap_file, pc, frontVars, capChild,
                   caption_text, final_text, handlers, pipeVars, whisperVars,
                   events, signalled, endVars>>

(***************************************************************************)
(* transcribe: the audio pipeline (lines 183-236)                          *)
(***************************************************************************)
\* a child is about to read its stdin ("rin"), to write to its stdout
\* ("wout") or stderr ("werr"), or has exited with status 0 ("x0") or with
\* another status ("x1"); exiting is one of the things it may do next
Live == {"rin", "wout", "werr"}
Exited == {"x0", "x1"}
YtOps == {"wout", "werr", "x0", "x1"}
FfOps == {"rin", "wout", "werr", "x0", "x1"}

\* line 188
InstallSigint ==
    /\ pc = "sig_int"
    /\ handlers' = handlers \cup {"SIGINT"}
    /\ pc' = "sig_term"
    /\ UNCHANGED <<inputVars, cap_file, peer,
                   frontVars, capVars, pipeVars, whisperVars,
                   events, signalled, endVars>>

\* line 189
InstallSigterm ==
    /\ pc = "sig_term"
    /\ handlers' = handlers \cup {"SIGTERM"}
    /\ pc' = "yt_popen"
    /\ UNCHANGED <<inputVars, cap_file, peer,
                   frontVars, capVars, pipeVars, whisperVars,
                   events, signalled, endVars>>

\* lines 194-199; FileNotFoundError is caught by line 296
YtPopen ==
    /\ pc = "yt_popen"
    /\ IF "yt-dlp" \in installed
       THEN /\ yt' \in YtOps
            /\ ytHandle' = "open"
            /\ events' = Append(events, Started("yt-dlp"))
            /\ pc' = "ff_popen"
            /\ UNCHANGED endVars
       ELSE /\ events' = Append(events, Failed("yt-dlp"))
            /\ Return(None)
            /\ UNCHANGED <<yt, ytHandle>>
    /\ UNCHANGED <<inputVars, cap_file, peer,
                   frontVars, capVars, handlers, ff, ytOut, ytErr,
                   ffOut, ffErr, audio_data, whisperVars, signalled>>

\* lines 203-209; FileNotFoundError is caught by line 296
FfPopen ==
    /\ pc = "ff_popen"
    /\ IF "ffmpeg" \in installed
       THEN /\ ff' \in FfOps
            /\ events' = Append(events, Started("ffmpeg"))
            /\ pc' = "close_stdout"
            /\ UNCHANGED endVars
       ELSE /\ events' = Append(events, Failed("ffmpeg"))
            /\ Return(None)
            /\ UNCHANGED ff
    /\ UNCHANGED <<inputVars, cap_file, peer,
                   frontVars, capVars, handlers, yt, ytHandle,
                   ytOut, ytErr, ffOut, ffErr, audio_data, whisperVars,
                   signalled>>

\* line 212
CloseYtStdout ==
    /\ pc = "close_stdout"
    /\ ytHandle' = "closed"
    /\ pc' = "communicate"
    /\ UNCHANGED <<inputVars, cap_file, peer,
                   frontVars, capVars, handlers, childVars,
                   audio_data, whisperVars, events, signalled, endVars>>

\* line 216: communicate() reads a byte of the resampler's stdout
CommunicateReadOut ==
    /\ pc = "communicate"
    /\ ffOut > 0
    /\ ffOut' = ffOut - 1
    /\ audio_data' = "data"
    /\ UNCHANGED <<inputVars, cap_file, peer,
                   pc, frontVars, capVars, handlers, yt, ff,
                   ytHandle, ytOut, ytErr, ffErr, whisperVars, events,
                   signalled, endVars>>

\* line 216: communicate() reads a byte of the resampler's stderr
CommunicateReadErr ==
    /\ pc = "communicate"
    /\ ffErr > 0
    /\ ffErr' = ffErr - 1
    /\ UNCHANGED <<inputVars, cap_file, peer,
                   pc, frontVars, capVars, handlers, yt, ff,
                   ytHandle, ytOut, ytErr, ffOut, audio_data, whisperVars,
                   events, signalled, endVars>>

\* line 216 as a wait(): it returns once the resampler has exited, whatever
\* is left in its pipes
CommunicateDoneEarly ==
    /\ pc = "communicate"
    /\ ff \in Exited
    /\ pc' = "yt_wait"
    /\ UNCHANGED <<inputVars, cap_file, peer,
                   frontVars, capVars, handlers, pipeVars,
                   whisperVars, events, signalled, endVars>>

\* line 216: both streams are at end-of-file and the resampler has exited
CommunicateDone ==
    /\ pc = "communicate"
    /\ ff \in Exited
    /\ ffOut = 0
    /\ ffErr = 0
    /\ pc' = "yt_wait"
    /\ UNCHANGED <<inputVars, cap_file, peer,
                   frontVars, capVars, handlers, pipeVars,
                   whisperVars, events, signalled, endVars>>

\* line 219
YtWait ==
    /\ pc = "yt_wait"
    /\ yt \in Exited
    /\ pc' = "check_yt"
    /\ UNCHANGED <<inputVars, cap_file, peer,
                   frontVars, capVars, handlers, pipeVars,
                   whisperVars, events, signalled, endVars>>

\* lines 221-225 with the test dropped: the downloader's status is ignored
CheckYtIgnored ==
    /\ pc = "check_yt"
    /\ pc' = "check_ff"
    /\ UNCHANGED <<inputVars, cap_file, peer,
                   frontVars, capVars, handlers, pipeVars,
                   whisperVars, events, signalled, endVars>>

\* lines 221-225; communicate() of line 222 drains the downloader's stderr
CheckYt ==
    /\ pc = "check_yt"
    /\ IF yt # "x0"
       THEN ytErr' = 0 /\ Return(None)
       ELSE pc' = "check_ff" /\ UNCHANGED <<ytErr, endVars>>
    /\ UNCHANGED <<inputVars, cap_file, peer,
                   frontVars, capVars, handlers, yt, ff, ytHandle,
                   ytOut, ffOut, ffErr, audio_data, whisperVars, events,
                   signalled>>

\* lines 227-230
CheckFf ==
    /\ pc = "check_ff"
    /\ IF ff # "x0"
       THEN Return(None)
       ELSE pc' = "check_audio" /\ UNCHANGED endVars
    /\ UNCHANGED <<inputVars, cap_file, peer,
                   frontVars, capVars, handlers, pipeVars,
                   whisperVars, events, signalled>>

\* lines 232-236
CheckAudio ==
    /\ pc = "check_audio"
    /\ IF audio_data = ""
       THEN Return(None)
       ELSE pc' = "load_model" /\ UNCHANGED endVars
    /\ UNCHANGED <<inputVars, cap_file, peer,
                   frontVars, capVars, handlers, pipeVars,
                   whisperVars, events, signalled>>

(***************************************************************************)
(* The two children of the audio pipeline.  Each repeatedly writes to its  *)
(* stdout or stderr (the resampler also reads its stdin) and at some point *)
(* exits with status 0 or not 0.  A write to a full pipe blocks; a write   *)
(* to a pipe without a reader kills the writer (SIGPIPE).                  *)
(***************************************************************************)
\* somebody holds the read end of the downloader's stdout pipe
YtOutHasReader == ff \in Live \/ ytHandle = "open"

\* the downloader writes a byte to its stdout, then goes on with next
YtWriteOut(next) ==
    /\ InTranscribe
    /\ yt = "wout"
    /\ IF ~YtOutHasReader THEN yt' = "x1" /\ ytOut' = ytOut
       ELSE ytOut < PipeCap /\ ytOut' = ytOut + 1 /\ yt' = next
    /\ UNCHANGED <<inputVars, cap_file, peer,
                   pc, frontVars, capVars, handlers, ff, ytHandle,
                   ytErr, ffOut, ffErr, audio_data, whisperVars, events,
                   signalled, endVars>>

\* the downloader writes a byte to its stderr, then goes on with next
YtWriteErr(next) ==
    /\ InTranscribe
    /\ yt = "werr"
    /\ ytErr < PipeCap
    /\ ytErr' = ytErr + 1
    /\ yt' = next
    /\ UNCHANGED <<inputVars, cap_file, peer,
                   pc, frontVars, capVars, handlers, ff, ytHandle,
                   ytOut, ffOut, ffErr, audio_data, whisperVars, events,
                   signalled, endVars>>

\* the resampler reads a byte of its stdin, or end-of-file once the writer
\* is gone, then goes on with next
FfRead(next) ==
    /\ InTranscribe
    /\ ff = "rin"
    /\ IF ytOut > 0 THEN ytOut' = ytOut - 1
       ELSE yt \in Exited /\ ytOut' = ytOut
    /\ ff' = next
    /\ UNCHANGED <<inputVars, cap_file, peer,
                   pc, frontVars, capVars, handlers, yt, ytHandle,
                   ytErr, ffOut, ffErr, audio_data, whisperVars, events,
                   signalled, endVars>>

\* the resampler writes a byte to its stdout, then goes on with next
FfWriteOut(next) ==
    /\ InTranscribe
    /\ ff = "wout"
    /\ ffOut < PipeCap
    /\ ffOut' = ffOut + 1
    /\ ff' = next
    /\ UNCHANGED <<inputVars, cap_file, peer,
                   pc, frontVars, capVars, handlers, yt, ytHandle,
                   ytOut, ytErr, ffErr, audio_data, whisperVars, events,
                   signalled, endVars>>

\* the resampler writes a byte to its stderr, then goes on with next
FfWriteErr(next) ==
    /\ InTranscribe
    /\ ff = "werr"
    /\ ffErr < PipeCap
    /\ ffErr' = ffErr + 1
    /\ ff' = next
    /\ UNCHANGED <<inputVars, cap_file, peer,
                   pc, frontVars, capVars, handlers, yt, ytHandle,
                   ytOut, ytErr, ffOut, audio_data, whisperVars, events,
                   signalled, endVars>>

(***************************************************************************)
(* transcribe: model load, bridge file, inference (lines 238-298)          *)
(***************************************************************************)
\* line 73: os.getenv('WHISPER_MODEL_SIZE', 'base')
GetModelSize(v) == IF v = Unset THEN "base" ELSE v

\* line 242 without the mapping: the requested name is loaded as it is
WhisperModelAsRequested(size) == size

\* line 242
WhisperModel(size) == IF size \in {"large-v3", "large"} THEN "base" ELSE size

\* lines 240-248: whisper.load_model returns or raises.  model_size is read
\* from the environment by line 73 and first used here: the value the
\* environment holds is drawn here
LoadModel(v) ==
    /\ pc = "load_model"
    /\ model_size' = GetModelSize(v)
    /\ loads' = Append(loads, WhisperModel(model_size'))
    /\ \/ pc' = "tmp_create"
       \/ pc' = "load_tiny"
    /\ UNCHANGED <<inputVars, cap_file, peer,
                   video_id, missing, capVars, handlers, pipeVars,
                   bridge, result_text, events, signalled, endVars>>

\* lines 249-253
LoadTiny ==
    /\ pc = "load_tiny"
    /\ loads' = Append(loads, "tiny")
    /\ \/ pc' = "tmp_create" /\ UNCHANGED endVars
       \/ Return(None)
    /\ UNCHANGED <<inputVars, cap_file, peer,
                   frontVars, capVars, handlers, pipeVars, bridge,
                   result_text, events, signalled>>

\* line 257: NamedTemporaryFile(delete=False) creates the file, or raises
TmpCreate ==
    /\ pc = "tmp_create"
    /\ \/ bridge' = "exists" /\ pc' = "tmp_write" /\ UNCHANGED endVars
       \/ bridge' = bridge /\ Return(None)
    /\ UNCHANGED <<inputVars, cap_file, peer,
                   frontVars, capVars, handlers, pipeVars, loads,
                   result_text, events, signalled>>

\* lines 258-259: the buffer is written and the file closed; if write()
\* raises, the with block closes the file, which delete=False keeps, and
\* line 296 catches the exception
TmpWrite ==
    /\ pc = "tmp_write"
    /\ \/ pc' = "infer_call" /\ UNCHANGED endVars
       \/ Return(None)
    /\ UNCHANGED <<inputVars, cap_file, peer,
                   frontVars, capVars, handlers, pipeVars,
                   whisperVars, events, signalled>>

\* line 266: the call of model.transcribe begins
InferenceCall ==
    /\ pc = "infer_call"
    /\ events' = Append(events, Started("inference"))
    /\ pc' = "inference"
    /\ UNCHANGED <<inputVars, cap_file, peer,
                   frontVars, capVars, handlers, pipeVars,
                   whisperVars, signalled, endVars>>

\* what model.transcribe may return: a dict with a 'text', or another value
InferenceResults ==
    { [hasText |-> TRUE, val |-> <<>>],
      [hasText |-> TRUE, val |-> <<" ">>],
      [hasText |-> TRUE, val |-> <<" ", "test", " ", "transcript", " ">>],
      [hasText |-> FALSE, val |-> <<"{", "}">>] }

\* lines 273-276: result['text'].strip() or str(result).strip()
ResultText(r) == Strip(r.val)

\* lines 266-276
InferenceReturn(r) ==
    /\ pc = "inference"
    /\ result_text' = ResultText(r)
    /\ pc' = "fin_ok"
    /\ UNCHANGED <<inputVars, cap_file, peer,
                   frontVars, capVars, handlers, pipeVars, loads,
                   bridge, events, signalled, endVars>>

\* line 266 raises
InferenceRaise ==
    /\ pc = "inference"
    /\ pc' = "fin_exc"
    /\ UNCHANGED <<inputVars, cap_file, peer,
                   frontVars, capVars, handlers, pipeVars,
                   whisperVars, events, signalled, endVars>>

\* lines 278-283, then what the try statement was leaving with
Finally ==
    /\ pc \in {"fin_ok", "fin_exc", "fin_exit"}
    /\ bridge' = "deleted"
    /\ CASE pc = "fin_ok" -> pc' = "report" /\ UNCHANGED endVars
         [] pc = "fin_exc" -> Return(None)
         [] pc = "fin_exit" -> Raise("SystemExit")
    /\ UNCHANGED <<inputVars, cap_file, peer,
                   frontVars, capVars, handlers, pipeVars, loads,
                   result_text, events, signalled>>

\* lines 285-294
Report ==
    /\ pc = "report"
    /\ IF result_text # <<>> THEN Return(Some(result_text)) ELSE Return(None)
    /\ UNCHANGED <<inputVars, cap_file, peer,
                   frontVars, capVars, handlers, pipeVars,
                   whisperVars, events, signalled>>

(***************************************************************************)
(* Signals (lines 184-189)                                                 *)
(***************************************************************************)
\* SIGINT or SIGTERM reaches the process while transcribe executes.
\*  - With signal_handler installed, sys.exit(0) raises SystemExit at the
\*    current statement.  No except clause of transcribe or main catches it
\*    (lines 296, 351 catch Exception); the finally of line 278 runs when
\*    the statement is inside the try of line 261; the bare except of line
\*    282 swallows it when the statement is the unlink of line 281.
\*  - Before line 188, SIGINT raises KeyboardInterrupt (subprocess.run kills
\*    its child on the way out); before line 189, SIGTERM kills the process.
DeliverSignal(sig) ==
    /\ outcome = "running"
    /\ InTranscribe
    /\ ~signalled
    /\ signalled' = TRUE
    /\ IF sig \in handlers
       THEN /\ CASE pc \in {"infer_call", "inference"} ->
                      pc' = "fin_exit" /\ UNCHANGED endVars
                 [] pc = "fin_ok" -> pc' = "report" /\ UNCHANGED endVars
                 [] pc = "fin_exc" -> Return(None)
                 [] OTHER -> Raise("SystemExit")
            /\ UNCHANGED capChild
       ELSE IF sig = "SIGTERM"
       THEN /\ pc' = "done"
            /\ outcome' = "killed"
            /\ exitStatus' = 143
            /\ UNCHANGED <<exc, result, capChild>>
       ELSE /\ capChild' = IF capChild = "none" THEN "none" ELSE "reaped"
            /\ Raise("KeyboardInterrupt")
    /\ UNCHANGED <<inputVars, cap_file, peer,
                   frontVars, files, caption_text,
                   final_text, handlers, pipeVars, whisperVars, events>>

(***************************************************************************)
(* The specification                                                       *)
(***************************************************************************)
Next ==
    \/ ImportWhisper
    \/ \E id \in Ids : Call(id)
    \/ \E args \in ArgLists : MainArgs(args)
    \/ MainResult
    \/ Validate
    \/ GetProxyConfig
    \/ CaptionRun
    \/ \E i \in 1..Len(CaptionSuffixes) : CaptionChildWrite(i)
    \/ CaptionChildExit
    \/ CaptionTimeout
    \/ CaptionProbe
    \/ CaptionRead
    \/ CaptionUnlink
    \/ CaptionParse
    \/ InstallSigint
    \/ InstallSigterm
    \/ YtPopen
    \/ FfPopen
    \/ CloseYtStdout
    \/ CommunicateReadOut
    \/ CommunicateReadErr
    \/ CommunicateDone
    \/ YtWait
    \/ CheckYt
    \/ CheckFf
    \/ CheckAudio
    \/ \E next \in YtOps : YtWriteOut(next)
    \/ \E next \in YtOps : YtWriteErr(next)
    \/ \E next \in FfOps : FfRead(next)
    \/ \E next \in FfOps : FfWriteOut(next)
    \/ \E next \in FfOps : FfWriteErr(next)
    \/ \E v \in ModelSizes : LoadModel(v)
    \/ LoadTiny
    \/ TmpCreate
    \/ TmpWrite
    \/ InferenceCall
    \/ \E r \in InferenceResults : InferenceReturn(r)
    \/ InferenceRaise
    \/ Finally
    \/ Report
    \/ \E sig \in Signals : DeliverSignal(sig)

Spec == Init /\ [][Next]_vars

\* two invocations at the same time, followed through their caption stages:
\* transcribe is called directly with everything installed and configured,
\* while another invocation, for the video BaseId, is at line 107
InitPair ==
    /\ entry = "transcribe"
    /\ environ = [v \in ProxyVarSet |-> "v"]
    /\ installed = {"yt-dlp", "ffmpeg", "whisper"}
    /\ pc = "import"
    /\ video_id = <<>>
    /\ missing = <<>>
    /\ model_size = ""
    /\ files = {}
    /\ capChild = "none"
    /\ caption_text = None
    /\ final_text = <<>>
    /\ handlers = {}
    /\ yt = "none" /\ ff = "none" /\ ytHandle = "none"
    /\ ytOut = 0 /\ ytErr = 0 /\ ffOut = 0 /\ ffErr = 0
    /\ audio_data = ""
    /\ loads = <<>>
    /\ bridge = "none"
    /\ result_text = <<>>
    /\ events = <<>>
    /\ signalled = FALSE
    /\ outcome = "running"
    /\ exc = ""
    /\ result = None
    /\ exitStatus = -1
    /\ cap_file = None
    /\ peer = [pc |-> "cap_wait", video_id |-> BaseId, cap_file |-> None,
               wrote |-> {}]

NextPair ==
    \/ ImportWhisper
    \/ \E id \in Ids : Call(id)
    \/ Validate
    \/ GetProxyConfig
    \/ CaptionRun
    \/ \E i \in 1..Len(CaptionSuffixes) : CaptionChildWrite(i)
    \/ CaptionChildExit
    \/ CaptionTimeout
    \/ CaptionProbe
    \/ CaptionRead
    \/ CaptionUnlink
    \/ CaptionParse
    \/ \E i \in 1..Len(CaptionSuffixes) : PeerChildWrite(i)
    \/ PeerChildExit
    \/ PeerProbe
    \/ PeerRead
    \/ PeerUnlink

SpecPair == InitPair /\ [][NextPair]_vars

TypeOK ==
    /\ pc \in STRING
    /\ ytOut \in 0..PipeCap /\ ytErr \in 0..PipeCap
    /\ ffOut \in 0..PipeCap /\ ffErr \in 0..PipeCap
    /\ audio_data \in {"", "data"}

(***************************************************************************)
(* Properties                                                              *)
(***************************************************************************)
\* transcribe has returned or raised, or the process has ended
Ended == pc \in {"main_result", "done"}

\* the caption stage read a file whose parsed text is not empty
CaptionsFound == caption_text # None /\ ParseVTT(caption_text[1]) # <<>>

\* the request reached the caption stage (line 107)
CaptionStageEntered == \E i \in 1..Len(events) : events[i][1] = "captions"

\* the caption stage was entered and did not produce a non-empty text
NoCaptionText == CaptionStageEntered /\ ~CaptionsFound

Attempts(child) == Count(Started(child)) + Count(Failed(child))

\* C1: once the caption stage has read a file whose parsed text is not
\* empty, no audio downloader, no resampler, no model load and no inference
\* is ever started in the request, and transcribe, unless a signal ends it
\* first, returns exactly that text.
C1_CaptionsShortCircuit ==
    CaptionsFound =>
        /\ \A i \in 1..Len(events) : events[i][1] = "captions"
        /\ yt = "none" /\ ff = "none"
        /\ loads = <<>> /\ bridge = "none"
        /\ \/ pc \in {"cap_unlink", "cap_parse"}
           \/ signalled
           \/ Ended /\ result = Some(ParseVTT(caption_text[1]))

\* the scenario of the spec: one cue "Hello world" comes back as the result
C1_Witness ==
    /\ CaptionsFound
    /\ ~signalled
    /\ outcome = "returned"
    /\ result = Some(<<"Hello", " ", "world">>)

\* C2 as stated: whenever the caption stage gives no text, by the end of the
\* request the audio downloader and the resampler have each been started
\* exactly once.
C2_FallbackStartedOnce ==
    (Ended /\ ~signalled /\ NoCaptionText) =>
        /\ Count(Started("yt-dlp")) = 1
        /\ Count(Started("ffmpeg")) = 1

\* C2 as amended: whenever the caption stage gives no text and no signal is
\* delivered, the fallback is entered exactly once: starting the audio
\* downloader is attempted exactly once, and starting the resampler exactly
\* once if the downloader started; each is started unless its binary is
\* missing; neither is ever attempted twice.
C2_FallbackAttemptedOnce ==
    /\ Attempts("yt-dlp") <= 1
    /\ Attempts("ffmpeg") <= 1
    /\ (Ended /\ ~signalled /\ NoCaptionText) =>
        /\ Attempts("yt-dlp") = 1
        /\ Attempts("ffmpeg") = Count(Started("yt-dlp"))
        /\ Count(Started("yt-dlp")) = 1 <=> "yt-dlp" \in installed
        /\ Count(Started("ffmpeg")) = 1 <=> {"yt-dlp", "ffmpeg"} \subseteq installed

\* a caption file whose text parses to nothing, then both children started
C2_Witness ==
    /\ Ended /\ ~signalled
    /\ caption_text # None /\ caption_text[1] # <<>> /\ ~CaptionsFound
    /\ Count(Started("yt-dlp")) = 1
    /\ Count(Started("ffmpeg")) = 1

\* C3: when transcribe has returned and no signal was delivered, none of the
\* caption files the caption downloader wrote is left under /tmp.
C3_NoLeakedCaptionFiles == (Ended /\ ~signalled) => files = {}

\* C4: when transcribe has returned and no signal was delivered, the bridge
\* file does not exist.
C4_NoLeakedBridgeFile == (Ended /\ ~signalled) => bridge # "exists"

\* C5: when a signal was delivered and transcribe has returned or the
\* process has ended, neither child of the audio pipeline is still running.
C5_InterruptKillsChildren ==
    (signalled /\ Ended) => yt \notin Live /\ ff \notin Live

\* C6: a request during which a signal was delivered ends in failure: it
\* returns no transcript and the process does not exit with status 0.
C6_CancellationIsFailure ==
    (signalled /\ outcome # "running") =>
        /\ exitStatus # 0
        /\ ~(outcome = "returned" /\ result # None)

\* a reference as the spec defines it: 11 characters, each a letter, a
\* digit, '-' or '_'
WellFormed(id) ==
    /\ Len(id) = 11
    /\ \A i \in 1..Len(id) : id[i] \in Letters \cup Digits \cup {"-", "_"}

\* a failure that the exit status must report
FailureSeen ==
    \/ "whisper" \notin installed
    \/ ~WellFormed(video_id)
    \/ ~ProxyComplete(environ)
    \/ yt = "x1"
    \/ ff = "x1"
    \/ Count(Started("ffmpeg")) = 1 /\ audio_data = ""
    \/ Len(loads) = 2 /\ bridge = "none"
    \/ Count(Started("inference")) = 1 /\ result_text = <<>>
    \/ exc # ""

\* C7: a run of main that no signal interrupts ends by exiting with status 0
\* or 1; the status is 0 exactly when transcribe returned a non-empty
\* transcript, and it is 1 after a wrong argument count, an invalid
\* reference, a proxy configuration error, a failed downloader or
\* resampler, an empty audio buffer, a model load failure, an empty
\* transcript or an exception out of transcribe.
C7_ExitStatus ==
    (entry = "main" /\ ~signalled /\ outcome # "running") =>
        /\ outcome = "exited"
        /\ exitStatus \in {0, 1}
        /\ exitStatus = 0 <=> (result # None /\ result[1] # <<>>)
        /\ FailureSeen => exitStatus = 1

\* the scenario of the spec: " test transcript " comes back trimmed, exit 0
C7_Witness ==
    /\ entry = "main" /\ ~signalled
    /\ result = Some(<<"test", " ", "transcript">>)
    /\ exitStatus = 0

\* the proxy variables that are unset or empty
FalsyVars == {v \in ProxyVarSet : environ[v] \in {Unset, ""}}

\* the request has gone through lines 65-70
ProxyChecked ==
    /\ pc \notin {"import", "call", "main_args", "t_validate", "t_proxy"}
    /\ "whisper" \in installed
    /\ Len(video_id) = 11
    /\ entry = "main" => WellFormed(video_id)

\* C8: when some proxy variable is unset or empty, no subprocess is ever
\* started, the message names exactly the variables that are unset or
\* empty, each once, and transcribe ends in failure.
C8_ProxyConfigError ==
    /\ FalsyVars # {} =>
        /\ events = <<>>
        /\ capChild = "none" /\ yt = "none" /\ ff = "none"
    /\ (FalsyVars # {} /\ ProxyChecked /\ ~signalled) =>
        /\ {missing[i] : i \in 1..Len(missing)} = FalsyVars
        /\ Len(missing) = Cardinality(FalsyVars)
        /\ Ended
        /\ result = None
        /\ entry = "transcribe" => outcome = "returned"
        /\ (entry = "main" /\ pc = "done") => exitStatus = 1
    /\ FalsyVars = {} => missing = <<>>

\* the scenario of the spec: all four unset, all four named, exit status 1
C8_Witness ==
    /\ \A v \in ProxyVarSet : environ[v] = Unset
    /\ missing = ProxyVars
    /\ events = <<>>
    /\ exitStatus = 1

\* C9: a child is started, or starting it attempted, only for a well-formed
\* reference and a complete proxy configuration.
C9_ValidatedBeforeIO ==
    events # <<>> => WellFormed(video_id) /\ ProxyComplete(environ)

\* the parent waits in communicate() for output of the resampler, or in
\* wait() for the downloader to exit
ParentBlocked ==
    \/ pc = "communicate" /\ ffOut = 0 /\ ffErr = 0 /\ ff \in Live
    \/ pc = "yt_wait" /\ yt \in Live

\* the downloader waits for room in one of its pipes
YtBlocked ==
    \/ yt = "wout" /\ YtOutHasReader /\ ytOut = PipeCap
    \/ yt = "werr" /\ ytErr = PipeCap

\* the resampler waits for input, or for room in one of its pipes
FfBlocked ==
    \/ ff = "rin" /\ ytOut = 0 /\ yt \in Live
    \/ ff = "wout" /\ ffOut = PipeCap
    \/ ff = "werr" /\ ffErr = PipeCap

\* C10: the parent, the downloader and the resampler are never all three
\* blocked.
C10_NoDeadlock == ~(ParentBlocked /\ YtBlocked /\ FfBlocked)

\* C11: by the time the parent has read any output of the resampler its own
\* handle to the downloader's stdout is closed, closing it being the first
\* thing the parent does once the resampler is started; and when the parent
\* is about to examine the exit status of either child, the resampler has
\* exited and its stdout and stderr have been read to end-of-stream, whatever
\* the downloader's exit status.
C11_DrainBeforeExitCheck ==
    /\ (Count(Started("ffmpeg")) = 1 /\ ytHandle # "closed") =>
           pc = "close_stdout" \/ (signalled /\ Ended)
    /\ audio_data # "" => ytHandle = "closed"
    /\ pc \in {"check_yt", "check_ff"} =>
        /\ ytHandle = "closed"
        /\ ff \in Exited /\ ffOut = 0 /\ ffErr = 0
        /\ yt \in Exited

\* the downloader exited nonzero after audio went through: its status is
\* about to be examined, with everything drained
C11_Witness ==
    /\ pc = "check_yt"
    /\ yt = "x1"
    /\ audio_data = "data"

\* C12: a model is loaded, the bridge file created or inference run only if
\* the downloader exited 0, the resampler exited 0 and audio was read; a
\* request that no signal interrupts and in which a child exited nonzero, or
\* both exited 0 with an empty buffer, returns the failure value without a
\* model load, a bridge file or inference.
C12_InferenceAfterGoodAudio ==
    /\ (loads # <<>> \/ bridge # "none" \/ Count(Started("inference")) > 0
            \/ pc \in {"load_model", "load_tiny", "tmp_create"}) =>
           yt = "x0" /\ ff = "x0" /\ audio_data # ""
    /\ (Ended /\ ~signalled /\ Count(Started("ffmpeg")) = 1
            /\ (yt # "x0" \/ ff # "x0" \/ audio_data = "")) =>
        /\ result = None
        /\ loads = <<>> /\ bridge = "none"
        /\ Count(Started("inference")) = 0
        /\ (entry = "main" /\ pc = "done") => exitStatus = 1

\* audio bytes were read, the downloader exited nonzero: failure
C12_Witness ==
    /\ Ended /\ ~signalled
    /\ yt = "x1" /\ ff = "x0"
    /\ audio_data = "data"
    /\ result = None

\* what C13 says of every state
C13_Loads ==
    /\ Len(loads) <= 2
    /\ loads # <<>> =>
           loads[1] = IF model_size \in {"large", "large-v3"} THEN "base"
                      ELSE model_size
    /\ Len(loads) = 2 => loads[2] = "tiny"
    /\ pc = "load_tiny" => Len(loads) = 1
    /\ \A c \in {"captions", "yt-dlp", "ffmpeg", "inference"} :
           Attempts(c) <= 1

\* what C13 says of every step: the attempt with 'tiny' is made after a
\* failed first attempt and only then, and when it fails the request ends
\* in failure with no bridge file and no inference
C13_Step ==
    /\ Len(loads') = 2 => (Len(loads) = 2 \/ pc = "load_tiny")
    /\ (pc = "load_tiny" /\ pc' # pc /\ ~signalled') =>
        /\ loads' = Append(loads, "tiny")
        /\ pc' # "tmp_create" =>
            /\ Ended'
            /\ result' = None
            /\ bridge' = "none"
            /\ Count(Started("inference")) = 0 /\ events' = events

\* C13: the model is loaded at most twice per request; the first attempt
\* uses 'base' for 'large' and 'large-v3' and the requested name otherwise;
\* exactly when it fails one further attempt is made, with 'tiny'; when that
\* fails too the request ends in failure without a bridge file or inference;
\* no child and no inference is ever started or attempted twice.
C13_ModelLoadRetry == []C13_Loads /\ [][C13_Step]_vars

\* 'large' was asked for, 'base' failed to load, 'tiny' loaded
C13_Witness ==
    /\ model_size = "large"
    /\ loads = <<"base", "tiny">>
    /\ Count(Started("inference")) = 1

\* C14: no exception leaves transcribe.
C14_NeverRaises == exc = ""

\* the value transcribe returns for a hard failure (lines 225, 230, 234,
\* 253, 298)
HardFailure == None

\* C15: when every stage succeeded and the trimmed inference text is empty,
\* what transcribe returns differs from what it returns for a hard failure.
C15_EmptyTranscriptDistinct ==
    [][(pc = "report" /\ result_text = <<>> /\ ~signalled' /\ Ended')
          => result' # HardFailure]_vars

\* the inline markup tags of the caption documents
Tags == {"<c>", "</c>", "<00:01>"}

\* the lines after the header: the WEBVTT line and the metadata lines that
\* follow it, up to the first blank line
RECURSIVE DropHeader(_)
DropHeader(lines) ==
    IF lines = <<>> THEN <<>>
    ELSE IF Strip(Head(lines)) = <<>> THEN Tail(lines)
    ELSE DropHeader(Tail(lines))

\* a text cue line: not blank, not a cue timing, not an index
IsCueText(line) ==
    /\ Strip(line) # <<>>
    /\ \A i \in 1..Len(line) : line[i] # "-->"
    /\ ~IsDigit(Strip(line))

\* a line with every inline tag removed
Untagged(line) == Strip(SelectSeq(line, LAMBDA t : t \notin Tags))

RECURSIVE CueLines(_)
CueLines(lines) ==
    IF lines = <<>> THEN <<>>
    ELSE IF IsCueText(Head(lines)) /\ Untagged(Head(lines)) # <<>>
    THEN <<Untagged(Head(lines))>> \o CueLines(Tail(lines))
    ELSE CueLines(Tail(lines))

\* the text cue lines of a document, untagged, joined by single spaces
CueText(doc) ==
    LET lines == SplitLines(doc, <<>>)
        body == IF lines[1] # <<>> /\ lines[1][1] = "WEBVTT"
                THEN DropHeader(lines) ELSE lines
    IN Join(CueLines(body))

\* C16: once a caption document has been parsed the parsed text is its text
\* cue lines, every inline tag removed, joined by single spaces, without
\* any header, timing or index line; and it is returned as the captions
\* when it is not empty.
C16_CaptionParsing ==
    (caption_text # None /\ caption_text[1] # <<>> /\ ~signalled
         /\ pc \notin {"cap_unlink", "cap_parse"}) =>
        /\ final_text = CueText(caption_text[1])
        /\ CueText(caption_text[1]) # <<>> =>
               Ended /\ result = Some(CueText(caption_text[1]))

\* C17: neither of two concurrent invocations reads or deletes a caption
\* file that the other one's downloader wrote.
C17_NoCollision ==
    /\ pc = "cap_unlink" => cap_file[1] \notin peer.wrote
    /\ (peer.pc = "cap_unlink" /\ peer.cap_file[1] \in files) =>
           peer.cap_file[1] \in peer.wrote

\* C18: when transcribe has returned and no signal was delivered, no child
\* the request started is still running.
C18_NoChildOutlivesCall ==
    (Ended /\ ~signalled) =>
        yt \notin Live /\ ff \notin Live /\ capChild # "run"

====
